---- MODULE Spec2Model ----
(***************************************************************************)
(* Collections backend (server.js inside src/mongo-init/init-mongo.js):    *)
(* debt aging (create-debt handler and the daily actualizarDiasMora        *)
(* sweep), template selection, rendering, dispatch and campaign metrics.   *)
(*                                                                         *)
(* Every handler is cut at its awaits: one action per store or transport   *)
(* round trip, the synchronous code between two awaits belongs to the      *)
(* action of the await that precedes it.                                   *)
(***************************************************************************)
EXTENDS Integers, Sequences, FiniteSets, TLC

\* ------------------------------------------------------------------ bounds
\* number of debt documents the store may hold
MaxDeudas == 2
\* number of dispatch requests (one handler instance per request)
MaxEnvios == 2
\* number of template documents of a drawn catalog
MaxPlantillas == 3
\* number of tokens of a drawn template body
MaxLen == 3
\* number of campaign documents the store may hold
MaxCampanias == 2
\* resolution of the model clock: ticks per day (the code's clock counts
\* milliseconds, 1000 * 60 * 60 * 24 of them per day)
UnDia == 2

\* ------------------------------------------------------- program constants
\* `diasMora <= 30` and `diasMora <= 90` of both classifiers
UmbralTemprana == 30
UmbralMedia == 90

VARIABLES
  now,             \* the wall clock read by `new Date()`, in ticks
  deudas,          \* collection Deuda: sequence of documents, _id = index
  sweep,           \* the running actualizarDiasMora: pc, hoy, cola
  traza,           \* history: the terminal debts at the start of the sweep,
                   \* the terminal writes made while it runs
  clientes,        \* collection Cliente: the set of existing _ids
  plantillas,      \* collection Plantilla: sequence of documents
  campanias,       \* collection Campania: _id -> metricas
  comunicaciones,  \* collection Comunicacion: sequence of documents
  envio,           \* the POST /api/comunicaciones/enviar handlers
  comparacion      \* the last answer of GET /api/campanias/comparar

vars == <<now, deudas, sweep, traza, clientes, plantillas, campanias,
          comunicaciones, envio, comparacion>>

\* ------------------------------------------------------------------ debts
Estados ==
  {"pendiente", "mora_temprana", "mora_media", "mora_avanzada",
   "pagada", "cancelada"}

\* the paid / cancelled tiers
Terminales == {"pagada", "cancelada"}

\* due dates and clock readings of the model, in ticks
DiasClave == {UmbralTemprana, UmbralTemprana + 1, UmbralMedia, UmbralMedia + 1}
Fechas == {0, (UmbralTemprana + 1) * UnDia}
Momentos == {0, 1} \cup {d * UnDia : d \in DiasClave}

\* the days rounded up, Math.ceil, instead of down
DiasEntreTecho(hoy, fechaVencimiento) ==
  (hoy - fechaVencimiento + UnDia - 1) \div UnDia

\* Math.floor((hoy - fechaVencimiento) / (1000 * 60 * 60 * 24)); only
\* evaluated when hoy > fechaVencimiento, so the dividend is positive
DiasEntre(hoy, fechaVencimiento) == (hoy - fechaVencimiento) \div UnDia

\* the chain of the create-debt handler with `<` for `<=`
EstadoAlCrearEstricto(diasMora) ==
  IF diasMora < UmbralTemprana THEN "mora_temprana"
  ELSE IF diasMora < UmbralMedia THEN "mora_media"
  ELSE "mora_avanzada"

\* the if / else-if chain of the create-debt handler
EstadoAlCrear(diasMora) ==
  IF diasMora <= UmbralTemprana THEN "mora_temprana"
  ELSE IF diasMora <= UmbralMedia THEN "mora_media"
  ELSE "mora_avanzada"

\* the if / else-if chain of the sweep
NuevoEstado(diasMora) ==
  IF diasMora <= UmbralTemprana THEN "mora_temprana"
  ELSE IF diasMora <= UmbralMedia THEN "mora_media"
  ELSE "mora_avanzada"

\* new Deuda(req.body) followed by the classification of the handler
DeudaNueva(body, hoy) ==
  IF hoy > body.fechaVencimiento
  THEN LET dias == DiasEntre(hoy, body.fechaVencimiento)
       IN  [fechaVencimiento |-> body.fechaVencimiento,
            diasMora |-> dias,
            estado |-> EstadoAlCrear(dias)]
  ELSE [fechaVencimiento |-> body.fechaVencimiento,
        diasMora |-> body.diasMora,
        estado |-> body.estado]

\* the create-debt handler of the simplified server: new Deuda(req.body),
\* its own Math.floor and its own if / else-if chain
DeudaNuevaSimple(body, hoy) ==
  IF hoy > body.fechaVencimiento
  THEN LET dias == (hoy - body.fechaVencimiento) \div UnDia
       IN  [fechaVencimiento |-> body.fechaVencimiento,
            diasMora |-> dias,
            estado |-> IF dias <= UmbralTemprana THEN "mora_temprana"
                       ELSE IF dias <= UmbralMedia THEN "mora_media"
                       ELSE "mora_avanzada"]
  ELSE [fechaVencimiento |-> body.fechaVencimiento,
        diasMora |-> body.diasMora,
        estado |-> body.estado]

\* request bodies of create-debt: diasMora left to its schema default,
\* estado either left to its default or supplied as a terminal tier
CuerposDeuda ==
  [fechaVencimiento : Fechas, diasMora : {0},
   estado : {"pendiente", "pagada", "cancelada"}]

\* POST /api/deudas
CrearDeuda(body) ==
  /\ Len(deudas) < MaxDeudas
  /\ deudas' = Append(deudas, DeudaNueva(body, now))
  /\ traza' = [traza EXCEPT !.hecho = "no"]
  /\ UNCHANGED <<now, sweep, clientes, plantillas, campanias,
                 comunicaciones, envio, comparacion>>

\* POST /api/deudas of the simplified server, on the same collection
CrearDeudaSimple(body) ==
  /\ Len(deudas) < MaxDeudas
  /\ deudas' = Append(deudas, DeudaNuevaSimple(body, now))
  /\ traza' = [traza EXCEPT !.hecho = "no"]
  /\ UNCHANGED <<now, sweep, clientes, plantillas, campanias,
                 comunicaciones, envio, comparacion>>

\* the clock moves forward to a later reading
AvanzarReloj ==
  /\ \E t \in Momentos : t > now /\ now' = t
  /\ traza' = [traza EXCEPT !.hecho = "no"]
  /\ UNCHANGED <<deudas, sweep, clientes, plantillas, campanias,
                 comunicaciones, envio, comparacion>>

\* Deuda.find({ estado: { $ne: 'pagada' } }), then the loop's test
\* `hoy > fechaVencimiento`, which no later write can change: the ids the
\* loop will update, in the order of the result
RECURSIVE ColaDe(_, _, _)
ColaDe(ds, hoy, i) ==
  IF i > Len(ds) THEN << >>
  ELSE IF ds[i].estado # "pagada" /\ hoy > ds[i].fechaVencimiento
       THEN <<i>> \o ColaDe(ds, hoy, i + 1)
       ELSE ColaDe(ds, hoy, i + 1)

\* the update written with { $inc: { diasMora } } for the days
ActualizarDeudaSuma(ds, i, hoy) ==
  LET dias == DiasEntre(hoy, ds[i].fechaVencimiento)
  IN  [ds EXCEPT ![i].diasMora = @ + dias, ![i].estado = NuevoEstado(dias)]

\* Deuda.findByIdAndUpdate(deuda._id, { diasMora, estado: nuevoEstado })
ActualizarDeuda(ds, i, hoy) ==
  LET dias == DiasEntre(hoy, ds[i].fechaVencimiento)
  IN  [ds EXCEPT ![i].diasMora = dias, ![i].estado = NuevoEstado(dias)]

\* the documents that are in a terminal tier, each with its _id
TerminalesDe(ds) ==
  {<<i, ds[i]>> : i \in {j \in DOMAIN ds : ds[j].estado \in Terminales}}

SweepIdle == [pc |-> "idle", hoy |-> 0, cola |-> << >>]

\* no sweep has run. hecho is "si" from the end of a run whose date is the
\* clock's reading until a debt is created, a payment is registered or the
\* clock moves, "corriendo" during such a run and "no" otherwise
TrazaVacia == [antes |-> {}, durante |-> {}, hecho |-> "no"]

\* setInterval fires: hoy = new Date(), await Deuda.find(...)
SweepInicio ==
  /\ sweep.pc = "idle"
  /\ LET cola == ColaDe(deudas, now, 1)
     IN  sweep' = IF cola = << >> THEN SweepIdle
                  ELSE [pc |-> "loop", hoy |-> now, cola |-> cola]
  /\ traza' = [antes |-> TerminalesDe(deudas), durante |-> {},
               hecho |-> IF traza.hecho = "si" \/ ColaDe(deudas, now, 1) = << >>
                         THEN "si" ELSE "corriendo"]
  /\ UNCHANGED <<now, deudas, clientes, plantillas, campanias,
                 comunicaciones, envio, comparacion>>

\* one iteration of the loop: await Deuda.findByIdAndUpdate(...)
SweepPaso ==
  /\ sweep.pc = "loop"
  /\ deudas' = ActualizarDeuda(deudas, Head(sweep.cola), sweep.hoy)
  /\ sweep' = IF Tail(sweep.cola) = << >> THEN SweepIdle
              ELSE [sweep EXCEPT !.cola = Tail(sweep.cola)]
  /\ traza' = IF Tail(sweep.cola) = << >> /\ traza.hecho = "corriendo"
              THEN [traza EXCEPT !.hecho = "si"]
              ELSE traza
  /\ UNCHANGED <<now, clientes, plantillas, campanias,
                 comunicaciones, envio, comparacion>>

\* Deuda.findByIdAndUpdate rejects: the store applies nothing, the loop is
\* left for the catch of the try that wraps it
SweepFalla ==
  /\ sweep.pc = "loop"
  /\ sweep' = [sweep EXCEPT !.pc = "catch"]
  /\ UNCHANGED <<now, deudas, traza, clientes, plantillas, campanias,
                 comunicaciones, envio, comparacion>>

\* catch (error) { console.error(...) }: the run returns
SweepCatch ==
  /\ sweep.pc = "catch"
  /\ sweep' = SweepIdle
  /\ UNCHANGED <<now, deudas, traza, clientes, plantillas, campanias,
                 comunicaciones, envio, comparacion>>

\* payment / cancellation event: one store write that moves an open debt
\* to a terminal tier
RegistrarPago(i, e) ==
  /\ i \in DOMAIN deudas
  /\ deudas[i].estado \notin Terminales
  /\ deudas' = [deudas EXCEPT ![i].estado = e]
  /\ traza' = IF sweep.pc = "loop"
              THEN [traza EXCEPT !.durante =
                      {p \in @ : p[1] # i} \cup {<<i, e>>},
                                 !.hecho = "no"]
              ELSE [traza EXCEPT !.hecho = "no"]
  /\ UNCHANGED <<now, sweep, clientes, plantillas, campanias,
                 comunicaciones, envio, comparacion>>

\* --------------------------------------------------------------- dispatch
\* the enum of Comunicacion.tipo and Plantilla.tipo, the cases of the switch
Tipos == {"email", "sms", "whatsapp"}

\* req.body.campaniaId left out
NoCampania == 0

\* placeholders the handler substitutes, in the order of its replace chain
Marcadores == <<"{nombre}", "{monto}", "{dias_mora}", "{fecha_vencimiento}">>

\* cliente.nombre, `$${deuda.monto.toLocaleString()}`, deuda.diasMora and
\* deuda.fechaVencimiento.toLocaleDateString(), as they appear in the text
Valores == <<"nombre", "$monto", "dias", "fecha">>

\* a template body is a sequence of tokens: placeholders and other text
Tokens == {Marcadores[i] : i \in DOMAIN Marcadores} \cup {"texto"}

\* String.prototype.replace(pattern, replacement) with a string pattern:
\* the first occurrence only
RECURSIVE Replace(_, _, _)
Replace(s, marcador, valor) ==
  IF s = << >> THEN << >>
  ELSE IF Head(s) = marcador THEN <<valor>> \o Tail(s)
  ELSE <<Head(s)>> \o Replace(Tail(s), marcador, valor)

\* plantilla.plantilla.replace(...).replace(...).replace(...).replace(...)
Contenido(cuerpo) ==
  Replace(Replace(Replace(Replace(cuerpo,
    Marcadores[1], Valores[1]),
    Marcadores[2], Valores[2]),
    Marcadores[3], Valores[3]),
    Marcadores[4], Valores[4])

\* req.body.tipo sent as the object { "$ne": "sms" } instead of a string:
\* express.json() parses it and the filter of findOne takes it as a query
\* operator
NoSms == "{ $ne: 'sms' }"

\* the tipo condition of a filter against a stored tipo: equality for a
\* string, the operator for the object
TipoCoincide(valor, tipo) ==
  IF tipo = NoSms THEN valor # "sms" ELSE valor = tipo

\* the filter of Plantilla.findOne:
\* { tipo, tono, diasMora: { $lte: deuda.diasMora }, activa: true }
Coincide(p, tipo, tono, diasMora) ==
  /\ TipoCoincide(p.tipo, tipo)
  /\ p.tono = tono
  /\ p.diasMora <= diasMora
  /\ p.activa

\* the sort taken in ascending order: .sort({ diasMora: 1 })
PrimeraAscendente(cat, S, k) ==
  \A j \in S : cat[k].diasMora <= cat[j].diasMora

\* .sort({ diasMora: -1 }): k may come first among the documents of S
Primera(cat, S, k) ==
  \A j \in S : cat[k].diasMora >= cat[j].diasMora

\* Plantilla.findOne(filter).sort({ diasMora: -1 }): the documents the query
\* may return, 0 standing for null. MongoDB returns documents with equal
\* sort keys in no defined order, so every one of them is a possible result.
FindOne(cat, tipo, tono, diasMora) ==
  LET S == {k \in DOMAIN cat : Coincide(cat[k], tipo, tono, diasMora)}
  IN  IF S = {} THEN {0} ELSE {k \in S : Primera(cat, S, k)}

\* campaniaSchema.metricas with its defaults
MetricasCero ==
  [enviados |-> 0, entregados |-> 0, leidos |-> 0, respondidos |-> 0,
   pagos |-> 0, tasaConversion |-> 0]

\* the update written as an assignment instead of an increment:
\* { 'metricas.enviados': 1, 'metricas.entregados': 1 }
IncMetricasAsigna(cs, campaniaId) ==
  IF campaniaId \in DOMAIN cs
  THEN [cs EXCEPT ![campaniaId].enviados = 1, ![campaniaId].entregados = 1]
  ELSE cs

\* the update with enviados left out of $inc
IncMetricasSoloEntregados(cs, campaniaId) ==
  IF campaniaId \in DOMAIN cs
  THEN [cs EXCEPT ![campaniaId].entregados = @ + 1]
  ELSE cs

\* the update with one of the two counters left out of $inc
IncMetricasSoloEnviados(cs, campaniaId) ==
  IF campaniaId \in DOMAIN cs
  THEN [cs EXCEPT ![campaniaId].enviados = @ + 1]
  ELSE cs

\* the update written with the whole metricas object replaced: the two
\* counters grow, the other fields go back to their defaults
IncMetricasReemplaza(cs, campaniaId) ==
  IF campaniaId \in DOMAIN cs
  THEN [cs EXCEPT ![campaniaId] =
          [MetricasCero EXCEPT !.enviados = cs[campaniaId].enviados + 1,
                               !.entregados = cs[campaniaId].entregados + 1]]
  ELSE cs

\* Campania.findByIdAndUpdate(campaniaId,
\*   { $inc: { 'metricas.enviados': 1, 'metricas.entregados': 1 } })
IncMetricas(cs, campaniaId) ==
  IF campaniaId \in DOMAIN cs
  THEN [cs EXCEPT ![campaniaId].enviados = @ + 1,
                  ![campaniaId].entregados = @ + 1]
  ELSE cs

\* document.save(): inserts the document the first time, updates the stored
\* document with the same _id afterwards
Save(coms, doc) ==
  IF \E k \in DOMAIN coms : coms[k].id = doc.id
  THEN [k \in DOMAIN coms |-> IF coms[k].id = doc.id THEN doc ELSE coms[k]]
  ELSE Append(coms, doc)

\* new Comunicacion({ clienteId, deudaId, tipo, contenido, tono, campaniaId })
\* of handler h, with the estado assigned before the save
Comunicacion(h, estado) ==
  [id |-> h, clienteId |-> envio[h].clienteId, deudaId |-> envio[h].deudaId,
   tipo |-> envio[h].tipo, contenido |-> envio[h].contenido,
   tono |-> envio[h].tono, campaniaId |-> envio[h].campaniaId,
   estado |-> estado]

EnvioIdle ==
  [pc |-> "idle", clienteId |-> 0, deudaId |-> 0, tipo |-> "", tono |-> "",
   campaniaId |-> NoCampania, cliente |-> FALSE, diasMora |-> 0,
   plantilla |-> 0, contenido |-> << >>, enviado |-> FALSE,
   resp |-> 0, error |-> ""]

\* what the dispatch handlers never write
SinCambioAlmacen ==
  UNCHANGED <<now, deudas, sweep, traza, clientes, plantillas, comparacion>>

\* the request arrives: const { clienteId, deudaId, tipo, tono, campaniaId } =
\* req.body; await Cliente.findById(clienteId)
Recibir(h, body) ==
  /\ envio[h].pc = "idle"
  /\ envio' = [envio EXCEPT ![h] =
       [@ EXCEPT !.pc = "findDeuda",
                 !.clienteId = body.clienteId, !.deudaId = body.deudaId,
                 !.tipo = body.tipo, !.tono = body.tono,
                 !.campaniaId = body.campaniaId,
                 !.cliente = body.clienteId \in clientes]]
  /\ SinCambioAlmacen
  /\ UNCHANGED <<campanias, comunicaciones>>

\* the 404 branch with a record of the failed attempt stored before the
\* answer
BuscarDeudaConRegistro(h) ==
  /\ envio[h].pc = "findDeuda"
  /\ envio' = [envio EXCEPT ![h] =
       IF envio[h].cliente /\ envio[h].deudaId \in DOMAIN deudas
       THEN [@ EXCEPT !.pc = "findPlantilla",
                      !.diasMora = deudas[envio[h].deudaId].diasMora]
       ELSE [@ EXCEPT !.pc = "done", !.resp = 404,
                      !.error = "Cliente o deuda no encontrada"]]
  /\ comunicaciones' =
       IF envio[h].cliente /\ envio[h].deudaId \in DOMAIN deudas
       THEN comunicaciones
       ELSE Save(comunicaciones, Comunicacion(h, "error"))
  /\ SinCambioAlmacen
  /\ UNCHANGED campanias

\* the test written as `if (!deuda)`: the customer is not looked at
BuscarDeudaSoloDeuda(h) ==
  /\ envio[h].pc = "findDeuda"
  /\ envio' = [envio EXCEPT ![h] =
       IF envio[h].deudaId \in DOMAIN deudas
       THEN [@ EXCEPT !.pc = "findPlantilla",
                      !.diasMora = deudas[envio[h].deudaId].diasMora]
       ELSE [@ EXCEPT !.pc = "done", !.resp = 404,
                      !.error = "Cliente o deuda no encontrada"]]
  /\ SinCambioAlmacen
  /\ UNCHANGED <<campanias, comunicaciones>>

\* await Deuda.findById(deudaId); if (!cliente || !deuda) return 404
BuscarDeuda(h) ==
  /\ envio[h].pc = "findDeuda"
  /\ envio' = [envio EXCEPT ![h] =
       IF envio[h].cliente /\ envio[h].deudaId \in DOMAIN deudas
       THEN [@ EXCEPT !.pc = "findPlantilla",
                      !.diasMora = deudas[envio[h].deudaId].diasMora]
       ELSE [@ EXCEPT !.pc = "done", !.resp = 404,
                      !.error = "Cliente o deuda no encontrada"]]
  /\ SinCambioAlmacen
  /\ UNCHANGED <<campanias, comunicaciones>>

\* the handler with `await comunicacion.save()` right after the document
\* is built (schema default estado 'enviado'), before the transport call
BuscarPlantillaConSave(h) ==
  /\ envio[h].pc = "findPlantilla"
  /\ \E k \in FindOne(plantillas, envio[h].tipo, envio[h].tono,
                      envio[h].diasMora) :
       /\ envio' = [envio EXCEPT ![h] =
            IF k = 0
            THEN [@ EXCEPT !.pc = "done", !.resp = 404,
                           !.error = "No se encontro plantilla apropiada"]
            ELSE [@ EXCEPT !.pc = "transporte", !.plantilla = k,
                           !.contenido = Contenido(plantillas[k].plantilla)]]
       /\ comunicaciones' =
            IF k = 0 THEN comunicaciones
            ELSE Save(comunicaciones,
                      [Comunicacion(h, "enviado") EXCEPT
                         !.contenido = Contenido(plantillas[k].plantilla)])
  /\ SinCambioAlmacen
  /\ UNCHANGED campanias

\* await Plantilla.findOne(...).sort(...); if (!plantilla) return 404;
\* contenido = ...; comunicacion = new Comunicacion(...); enviado = false;
\* the transport call of the switch is issued
BuscarPlantilla(h) ==
  /\ envio[h].pc = "findPlantilla"
  /\ \E k \in FindOne(plantillas, envio[h].tipo, envio[h].tono,
                      envio[h].diasMora) :
       envio' = [envio EXCEPT ![h] =
         IF k = 0
         THEN [@ EXCEPT !.pc = "done", !.resp = 404,
                        !.error = "No se encontro plantilla apropiada"]
         ELSE [@ EXCEPT !.pc = "transporte", !.plantilla = k,
                        !.contenido = Contenido(plantillas[k].plantilla)]]
  /\ SinCambioAlmacen
  /\ UNCHANGED <<campanias, comunicaciones>>

\* the awaited sendMail / messages.create settles: resolved (ok) sets
\* enviado = true, rejected enters catch (envioError). A tipo outside the
\* switch sends nothing, leaves enviado false and skips `if (enviado)`: the
\* handler ends without a save and without a response.
Transporte(h, ok) ==
  /\ envio[h].pc = "transporte"
  /\ envio' = [envio EXCEPT ![h] =
       IF envio[h].tipo \notin Tipos THEN [@ EXCEPT !.pc = "done"]
       ELSE IF ok THEN [@ EXCEPT !.pc = "saveEntregado", !.enviado = TRUE]
       ELSE [@ EXCEPT !.pc = "saveError"]]
  /\ SinCambioAlmacen
  /\ UNCHANGED <<campanias, comunicaciones>>

\* if (enviado) { comunicacion.estado = 'entregado'; await
\* comunicacion.save(); then either the campaign update is issued or
\* res.json({ success: true, comunicacion })
SaveEntregado(h) ==
  /\ envio[h].pc = "saveEntregado"
  /\ comunicaciones' = Save(comunicaciones, Comunicacion(h, "entregado"))
  /\ envio' = [envio EXCEPT ![h] =
       IF envio[h].campaniaId # NoCampania
       THEN [@ EXCEPT !.pc = "incCampania"]
       ELSE [@ EXCEPT !.pc = "done", !.resp = 200]]
  /\ SinCambioAlmacen
  /\ UNCHANGED campanias

\* await Campania.findByIdAndUpdate(campaniaId, { $inc: ... }); res.json
IncCampania(h) ==
  /\ envio[h].pc = "incCampania"
  /\ campanias' = IncMetricas(campanias, envio[h].campaniaId)
  /\ envio' = [envio EXCEPT ![h] = [@ EXCEPT !.pc = "done", !.resp = 200]]
  /\ SinCambioAlmacen
  /\ UNCHANGED comunicaciones

\* the catch block without its `await comunicacion.save()`
SaveErrorSinSave(h) ==
  /\ envio[h].pc = "saveError"
  /\ envio' = [envio EXCEPT ![h] =
       [@ EXCEPT !.pc = "done", !.resp = 500,
                 !.error = "Error al enviar comunicacion"]]
  /\ SinCambioAlmacen
  /\ UNCHANGED <<campanias, comunicaciones>>

\* catch (envioError) { comunicacion.estado = 'error'; await
\* comunicacion.save(); res.status(500).json(...) }
SaveError(h) ==
  /\ envio[h].pc = "saveError"
  /\ comunicaciones' = Save(comunicaciones, Comunicacion(h, "error"))
  /\ envio' = [envio EXCEPT ![h] =
       [@ EXCEPT !.pc = "done", !.resp = 500,
                 !.error = "Error al enviar comunicacion"]]
  /\ SinCambioAlmacen
  /\ UNCHANGED campanias

\* comunicacion.save() of the `if (enviado)` branch rejects: nothing is
\* stored and the catch (envioError) of the inner try is entered
SaveEntregadoFalla(h) ==
  /\ envio[h].pc = "saveEntregado"
  /\ envio' = [envio EXCEPT ![h] = [@ EXCEPT !.pc = "saveError"]]
  /\ SinCambioAlmacen
  /\ UNCHANGED <<campanias, comunicaciones>>

\* Campania.findByIdAndUpdate rejects: no counter changes and the same
\* catch is entered, after the 'entregado' record was stored
IncCampaniaFalla(h) ==
  /\ envio[h].pc = "incCampania"
  /\ envio' = [envio EXCEPT ![h] = [@ EXCEPT !.pc = "saveError"]]
  /\ SinCambioAlmacen
  /\ UNCHANGED <<campanias, comunicaciones>>

\* comunicacion.save() inside the catch rejects: the outer catch answers
\* res.status(500).json({ error: error.message })
SaveErrorFalla(h) ==
  /\ envio[h].pc = "saveError"
  /\ envio' = [envio EXCEPT ![h] =
       [@ EXCEPT !.pc = "done", !.resp = 500, !.error = "error.message"]]
  /\ SinCambioAlmacen
  /\ UNCHANGED <<campanias, comunicaciones>>

\* -------------------------------------------------------------- campaigns
\* request bodies of create-campaign: metricas left to its defaults, or
\* supplied with counters above 0
CuerposCampania ==
  {[metricas |-> MetricasCero],
   [metricas |-> [enviados |-> 2, entregados |-> 2, leidos |-> 1,
                  respondidos |-> 1, pagos |-> 1, tasaConversion |-> 0]]}

\* POST /api/campanias: new Campania(req.body), save
CrearCampania(body) ==
  /\ Len(campanias) < MaxCampanias
  /\ campanias' = Append(campanias, body.metricas)
  /\ UNCHANGED <<now, deudas, sweep, traza, clientes, plantillas,
                 comunicaciones, envio, comparacion>>

\* (count / enviados * 100).toFixed(2): a number of hundredths, rounded to
\* the nearest, the larger on a tie; 0 / 0 is NaN and count / 0 is Infinity,
\* which toFixed prints as "NaN" and "Infinity"
ToFixed2(count, enviados) ==
  IF enviados = 0
  THEN [clase |-> IF count = 0 THEN "NaN" ELSE "Infinity", centesimas |-> 0]
  ELSE [clase |-> "numero",
        centesimas |-> (2 * count * 10000 + enviados) \div (2 * enviados)]

\* one side of the comparison object
Lado(m) ==
  [metricas |-> m,
   tasaApertura |-> ToFixed2(m.leidos, m.enviados),
   tasaRespuesta |-> ToFixed2(m.respondidos, m.enviados),
   tasaConversion |-> ToFixed2(m.pagos, m.enviados)]

SinComparacion == [status |-> 0, lados |-> << >>]

\* GET /api/campanias/comparar/:campaniaA/:campaniaB: both documents are
\* read, each side is computed from the document read for it; a missing
\* document makes `campaniaAData.nombre` throw, caught as a 500
Comparar(a, b) ==
  /\ comparacion' =
       IF a \in DOMAIN campanias /\ b \in DOMAIN campanias
       THEN [status |-> 200,
             lados |-> <<Lado(campanias[a]), Lado(campanias[b])>>]
       ELSE [status |-> 500, lados |-> << >>]
  /\ UNCHANGED <<now, deudas, sweep, traza, clientes, plantillas, campanias,
                 comunicaciones, envio>>

\* ------------------------------------------------- state after start-up
Init ==
  /\ now = 0
  /\ deudas = << >>
  /\ sweep = SweepIdle
  /\ traza = TrazaVacia
  /\ clientes = {}
  /\ plantillas = << >>
  /\ campanias = << >>
  /\ comunicaciones = << >>
  /\ envio = [h \in 1..MaxEnvios |-> EnvioIdle]
  /\ comparacion = SinComparacion

Next ==
  \/ \E body \in CuerposDeuda : CrearDeuda(body)
  \/ AvanzarReloj
  \/ SweepInicio
  \/ SweepPaso
  \/ \E i \in 1..MaxDeudas, e \in Terminales : RegistrarPago(i, e)

Spec == Init /\ [][Next]_vars

\* ------------------------------------------- dispatch: fixed catalog
\* a body with two bound placeholders
CuerpoFijo == <<"texto", "{nombre}", "{monto}">>

\* thresholds, (tipo, tono) pairs and documents of the drawn catalogs
Umbrales == <<0, 30, 90>>
TipoTono == <<<<"email", "formal">>, <<"sms", "formal">>,
              <<"email", "urgente">>>>
NumClases == Len(Umbrales) * Len(TipoTono) * 2

\* the n-th template document: n = (threshold, activa, (tipo, tono)); the
\* catalog names its documents
PlantillaClase(n) ==
  [tipo |-> TipoTono[(n % Len(TipoTono)) + 1][1],
   tono |-> TipoTono[(n % Len(TipoTono)) + 1][2],
   activa |-> (n \div Len(TipoTono)) % 2 = 0,
   diasMora |-> Umbrales[(n \div (2 * Len(TipoTono))) + 1],
   plantilla |-> CuerpoFijo,
   nombre |-> 0]

\* a customer, a debt 45 days overdue and classified, a debt due now
InitDatos ==
  /\ now = 45 * UnDia
  /\ deudas = <<[fechaVencimiento |-> 0, diasMora |-> 45,
                 estado |-> "mora_media"],
                [fechaVencimiento |-> 45 * UnDia, diasMora |-> 0,
                 estado |-> "pendiente"]>>
  /\ sweep = SweepIdle
  /\ traza = TrazaVacia
  /\ clientes = {1}
  /\ comunicaciones = << >>
  /\ envio = [h \in 1..MaxEnvios |-> EnvioIdle]
  /\ comparacion = SinComparacion

\* active email / formal templates at thresholds 0, 30 and 90, two campaigns
InitEnvio ==
  /\ InitDatos
  /\ plantillas = <<[PlantillaClase(0) EXCEPT !.nombre = 1],
                    [PlantillaClase(6) EXCEPT !.nombre = 2],
                    [PlantillaClase(12) EXCEPT !.nombre = 3]>>
  /\ campanias = <<MetricasCero, MetricasCero>>

\* requests: an existing or a missing customer; no campaign, one of the two
\* campaigns, or the id of no campaign
CuerposEnvio ==
  [clienteId : {1, 2}, deudaId : {1}, tipo : {"email"}, tono : {"formal"},
   campaniaId : {NoCampania, 1, 2, 3}]

NextEnvio ==
  \/ \E h \in 1..MaxEnvios, body \in CuerposEnvio : Recibir(h, body)
  \/ \E h \in 1..MaxEnvios : BuscarDeuda(h)
  \/ \E h \in 1..MaxEnvios : BuscarPlantilla(h)
  \/ \E h \in 1..MaxEnvios, ok \in BOOLEAN : Transporte(h, ok)
  \/ \E h \in 1..MaxEnvios : SaveEntregado(h)
  \/ \E h \in 1..MaxEnvios : IncCampania(h)
  \/ \E h \in 1..MaxEnvios : SaveError(h)

SpecEnvio == InitEnvio /\ [][NextEnvio]_vars

\* ------------------------------------------- selection: drawn catalogs
\* every catalog of at most MaxPlantillas documents, up to the order of the
\* documents (which the query does not depend on)
Catalogos ==
  UNION {{[k \in 1..n |-> [PlantillaClase(t[k]) EXCEPT !.nombre = k]] :
            t \in {u \in [1..n -> 0..(NumClases - 1)] :
                     \A i \in 1..(n - 1) : u[i] <= u[i + 1]}} :
         n \in 0..MaxPlantillas}

InitSeleccion ==
  /\ InitDatos
  /\ plantillas \in Catalogos
  /\ campanias = << >>

CuerposSeleccion ==
  [clienteId : {1}, deudaId : {1, 2}, tipo : {"email"}, tono : {"formal"},
   campaniaId : {NoCampania}]

\* the handlers up to the template query
NextSeleccion ==
  \/ \E h \in 1..MaxEnvios, body \in CuerposSeleccion : Recibir(h, body)
  \/ \E h \in 1..MaxEnvios : BuscarDeuda(h)
  \/ \E h \in 1..MaxEnvios : BuscarPlantilla(h)

SpecSeleccion == InitSeleccion /\ [][NextSeleccion]_vars

\* ------------------------------------------- rendering: drawn bodies
\* every body of 1 to MaxLen tokens (Plantilla.plantilla is required)
Cuerpos == UNION {[1..n -> Tokens] : n \in 1..MaxLen}

InitRender ==
  /\ InitDatos
  /\ \E c \in Cuerpos :
       plantillas = <<[tipo |-> "email", tono |-> "formal", activa |-> TRUE,
                       diasMora |-> 0, plantilla |-> c, nombre |-> 1]>>
  /\ campanias = << >>

CuerposRender ==
  [clienteId : {1}, deudaId : {1}, tipo : {"email"}, tono : {"formal"},
   campaniaId : {NoCampania}]

NextRender ==
  \/ \E h \in 1..MaxEnvios, body \in CuerposRender : Recibir(h, body)
  \/ \E h \in 1..MaxEnvios : BuscarDeuda(h)
  \/ \E h \in 1..MaxEnvios : BuscarPlantilla(h)
  \/ \E h \in 1..MaxEnvios, ok \in BOOLEAN : Transporte(h, ok)
  \/ \E h \in 1..MaxEnvios : SaveEntregado(h)
  \/ \E h \in 1..MaxEnvios : SaveError(h)

SpecRender == InitRender /\ [][NextRender]_vars

\* ------------------------------------- campaigns next to the other writers
\* a customer, a classified debt, the fixed catalog, no campaign yet
InitCampanias ==
  /\ now = 45 * UnDia
  /\ deudas = <<[fechaVencimiento |-> 0, diasMora |-> 45,
                 estado |-> "mora_media"]>>
  /\ sweep = SweepIdle
  /\ traza = TrazaVacia
  /\ clientes = {1}
  /\ plantillas = <<[PlantillaClase(0) EXCEPT !.nombre = 1],
                    [PlantillaClase(6) EXCEPT !.nombre = 2],
                    [PlantillaClase(12) EXCEPT !.nombre = 3]>>
  /\ campanias = << >>
  /\ comunicaciones = << >>
  /\ envio = [h \in 1..MaxEnvios |-> EnvioIdle]
  /\ comparacion = SinComparacion

CuerposConCampania ==
  [clienteId : {1}, deudaId : {1}, tipo : {"email"}, tono : {"formal"},
   campaniaId : {1}]

NextCampanias ==
  \/ \E body \in CuerposCampania : CrearCampania(body)
  \/ \E a \in 1..MaxCampanias : Comparar(a, 1)
  \/ SweepInicio
  \/ SweepPaso
  \/ \E h \in 1..MaxEnvios, body \in CuerposConCampania : Recibir(h, body)
  \/ \E h \in 1..MaxEnvios : BuscarDeuda(h)
  \/ \E h \in 1..MaxEnvios : BuscarPlantilla(h)
  \/ \E h \in 1..MaxEnvios, ok \in BOOLEAN : Transporte(h, ok)
  \/ \E h \in 1..MaxEnvios : SaveEntregado(h)
  \/ \E h \in 1..MaxEnvios : IncCampania(h)
  \/ \E h \in 1..MaxEnvios : SaveError(h)

SpecCampanias == InitCampanias /\ [][NextCampanias]_vars

\* the event loop runs every continuation whose awaited store call has
\* settled, and the store settles every call; nothing bounds the awaited
\* transport call, and nothing makes a request arrive
SpecEnvioJusto ==
  /\ InitEnvio
  /\ [][NextEnvio]_vars
  /\ \A h \in 1..MaxEnvios :
       /\ WF_vars(BuscarDeuda(h))
       /\ WF_vars(BuscarPlantilla(h))
       /\ WF_vars(SaveEntregado(h))
       /\ WF_vars(IncCampania(h))
       /\ WF_vars(SaveError(h))

\* -------------------------------------- requests that may not resolve
\* ids of a customer and of a debt that are and that are not in the store,
\* a tono the catalog has a template for and one it has none for
CuerposResolucion ==
  [clienteId : {1, 2}, deudaId : {1, 3}, tipo : {"email"},
   tono : {"formal", "legal"}, campaniaId : {1}]

NextResolucion ==
  \/ \E h \in 1..MaxEnvios, body \in CuerposResolucion : Recibir(h, body)
  \/ \E h \in 1..MaxEnvios : BuscarDeuda(h)
  \/ \E h \in 1..MaxEnvios : BuscarPlantilla(h)
  \/ \E h \in 1..MaxEnvios, ok \in BOOLEAN : Transporte(h, ok)
  \/ \E h \in 1..MaxEnvios : SaveEntregado(h)
  \/ \E h \in 1..MaxEnvios : IncCampania(h)
  \/ \E h \in 1..MaxEnvios : SaveError(h)

SpecResolucion == InitEnvio /\ [][NextResolucion]_vars

\* ------------------------------------ debts created with any payload
\* request bodies of create-debt that supply diasMora and estado themselves
CuerposCarga ==
  [fechaVencimiento : Fechas, diasMora : {0, 45},
   estado : {"pendiente", "mora_avanzada"}]

NextCarga ==
  \/ \E body \in CuerposCarga : CrearDeuda(body)
  \/ AvanzarReloj
  \/ SweepInicio
  \/ SweepPaso

SpecCarga == Init /\ [][NextCarga]_vars

\* ---------------------------------- dispatch on a store that fails
\* requests with tipo a string of the enum or the operator object, with and
\* without a campaign
CuerposFalla ==
  [clienteId : {1}, deudaId : {1}, tipo : {"email", NoSms},
   tono : {"formal"}, campaniaId : {NoCampania, 1}]

NextEnvioFalla ==
  \/ \E h \in 1..MaxEnvios, body \in CuerposFalla : Recibir(h, body)
  \/ \E h \in 1..MaxEnvios : BuscarDeuda(h)
  \/ \E h \in 1..MaxEnvios : BuscarPlantilla(h)
  \/ \E h \in 1..MaxEnvios, ok \in BOOLEAN : Transporte(h, ok)
  \/ \E h \in 1..MaxEnvios : SaveEntregado(h)
  \/ \E h \in 1..MaxEnvios : SaveEntregadoFalla(h)
  \/ \E h \in 1..MaxEnvios : IncCampania(h)
  \/ \E h \in 1..MaxEnvios : IncCampaniaFalla(h)
  \/ \E h \in 1..MaxEnvios : SaveError(h)
  \/ \E h \in 1..MaxEnvios : SaveErrorFalla(h)

SpecEnvioFalla == InitEnvio /\ [][NextEnvioFalla]_vars

\* ------------------------------- creation and sweep on default payloads
\* request bodies of create-debt with diasMora and estado left to their
\* schema defaults
CuerposPorDefecto ==
  [fechaVencimiento : Fechas, diasMora : {0}, estado : {"pendiente"}]

NextAcuerdo ==
  \/ \E body \in CuerposPorDefecto : CrearDeuda(body)
  \/ \E body \in CuerposPorDefecto : CrearDeudaSimple(body)
  \/ AvanzarReloj
  \/ SweepInicio
  \/ SweepPaso

SpecAcuerdo == Init /\ [][NextAcuerdo]_vars

\* ------------------------------------------ the sweep on a store that fails
NextFalla ==
  \/ \E body \in CuerposDeuda : CrearDeuda(body)
  \/ AvanzarReloj
  \/ SweepInicio
  \/ SweepPaso
  \/ SweepFalla
  \/ SweepCatch
  \/ \E i \in 1..MaxDeudas, e \in Terminales : RegistrarPago(i, e)

SpecFalla == Init /\ [][NextFalla]_vars

\* ------------------------------------------------------------------ claims

\* C1: a debt stored as 'pagada' or 'cancelada' when a sweep of
\* actualizarDiasMora starts has the same estado and diasMora during and
\* after that sweep, whatever its due date and the current date.
C1_TerminalIntacta ==
  \A p \in traza.antes : deudas[p[1]] = p[2]

\* C2: a terminal write wins over a classifier write: when a payment or
\* cancellation event wrote a terminal tier to a debt while a sweep was in
\* progress, the debt is in that tier once the sweep has finished.
C2_TerminalGana ==
  sweep.pc = "idle" =>
    \A p \in traza.durante : deudas[p[1]].estado = p[2]

\* the threshold table: 0 -> current, 1..30 -> early, 31..90 -> mid,
\* above 90 -> advanced
TablaEstado(dias) ==
  IF dias = 0 THEN "pendiente"
  ELSE IF dias <= 30 THEN "mora_temprana"
  ELSE IF dias <= 90 THEN "mora_media"
  ELSE "mora_avanzada"

\* max(0, whole days from the due date to the reference date)
DiasTabla(ref, fechaVencimiento) ==
  IF ref > fechaVencimiento THEN (ref - fechaVencimiento) \div UnDia ELSE 0

\* C3: every non-terminal debt written by create-debt (reference date: the
\* clock) or by a sweep iteration (reference date: the sweep's hoy) gets
\* days_in_arrears = max(0, whole days overdue) and the tier the threshold
\* table gives for that day count, 0 days being 'pendiente'.
C3_TablaExacta ==
  [][\A i \in DOMAIN deudas' :
       LET nueva == i \notin DOMAIN deudas
           ref == IF nueva THEN now ELSE sweep.hoy
           d == deudas'[i]
       IN  (nueva \/ d # deudas[i]) /\ d.estado \notin Terminales =>
             /\ d.diasMora = DiasTabla(ref, d.fechaVencimiento)
             /\ d.estado = TablaEstado(d.diasMora)]_vars

\* the stored Communication documents of dispatch call h
RegistrosDe(h) == {k \in DOMAIN comunicaciones : comunicaciones[k].id = h}

\* handler h has passed resolution and template selection and has finished
Despachado(h) == envio[h].pc = "done" /\ envio[h].plantilla # 0

\* C4: when the transport of a dispatch with a campaign reference fails, the
\* Communication is stored with estado 'error', the campaign's enviados
\* grows by exactly 1 and its entregados is unchanged.
C4_FalloCuentaEnviado ==
  [][\A h \in DOMAIN envio :
       LET c == envio[h].campaniaId
       IN  /\ envio[h].pc = "saveError"
           /\ envio'[h].pc = "done"
           /\ c \in DOMAIN campanias
           => /\ \E k \in DOMAIN comunicaciones' :
                   /\ comunicaciones'[k].id = h
                   /\ comunicaciones'[k].estado = "error"
              /\ campanias'[c].enviados = campanias[c].enviados + 1
              /\ campanias'[c].entregados = campanias[c].entregados]_vars

\* the finished dispatches that reference campaign c
DespachosDe(c) ==
  {h \in DOMAIN envio : envio[h].pc = "done" /\ envio[h].campaniaId = c}

\* no dispatch is in progress
Quieto == \A h \in DOMAIN envio : envio[h].pc \in {"idle", "done"}

\* C5: once the N concurrent dispatches that reference a campaign have all
\* finished with transport success, the campaign's enviados is exactly N
\* and its entregados the number of transport successes, whatever the
\* interleaving of the handlers (the counters start at 0).
C5_SinIncrementoPerdido ==
  Quieto =>
    \A c \in DOMAIN campanias :
      (\A h \in DespachosDe(c) : envio[h].enviado) =>
        /\ campanias[c].enviados = Cardinality(DespachosDe(c))
        /\ campanias[c].entregados =
             Cardinality({h \in DespachosDe(c) : envio[h].enviado})

\* C5 witness: every handler has dispatched to campaign 1 with transport
\* success and the campaign counts them all
C5_Testigo ==
  /\ \A h \in DOMAIN envio :
       envio[h].pc = "done" /\ envio[h].campaniaId = 1 /\ envio[h].enviado
  /\ campanias[1].enviados = MaxEnvios

\* handler h answers with success in this step
Responde200(h) == envio[h].resp # 200 /\ envio'[h].resp = 200

\* C6: a dispatch that succeeds has its Communication stored as 'entregado';
\* with a campaign reference enviados and entregados of that campaign grow
\* by 1 in the same step, no step changes one of the two counters without
\* the other, and without a campaign reference no campaign changes.
C6_IncrementoAtomico ==
  [][/\ \A c \in DOMAIN campanias :
          campanias'[c].enviados - campanias[c].enviados
            = campanias'[c].entregados - campanias[c].entregados
     /\ \A h \in DOMAIN envio :
          Responde200(h) =>
            /\ \E k \in DOMAIN comunicaciones' :
                 /\ comunicaciones'[k].id = h
                 /\ comunicaciones'[k].estado = "entregado"
            /\ IF envio[h].campaniaId \in DOMAIN campanias
               THEN /\ campanias'[envio[h].campaniaId].enviados
                         = campanias[envio[h].campaniaId].enviados + 1
                    /\ campanias'[envio[h].campaniaId].entregados
                         = campanias[envio[h].campaniaId].entregados + 1
               ELSE campanias' = campanias
     /\ campanias' # campanias =>
          \E h \in DOMAIN envio :
            Responde200(h) /\ envio[h].campaniaId \in DOMAIN campanias]_vars

\* C6 witness: a successful dispatch with a campaign reference has finished
\* next to a successful one without
C6_Testigo ==
  \E h, g \in DOMAIN envio :
    /\ envio[h].resp = 200 /\ envio[h].campaniaId \in DOMAIN campanias
    /\ campanias[envio[h].campaniaId].enviados = 1
    /\ campanias[envio[h].campaniaId].entregados = 1
    /\ envio[g].resp = 200 /\ envio[g].campaniaId = NoCampania

C8_SinMarcadores ==
  \A h \in DOMAIN envio :
    envio[h].plantilla # 0 =>
      \A i \in DOMAIN envio[h].contenido :
        \A m \in DOMAIN Marcadores : envio[h].contenido[i] # Marcadores[m]

\* the query of handler h has been answered
Consultado(h) ==
  envio[h].plantilla # 0 \/ envio[h].error = "No se encontro plantilla apropiada"

\* C9: the template a dispatch selects is active, has the request's tipo
\* and tono and a threshold <= the debt's diasMora, and no template with
\* these properties has a larger threshold; the dispatch answers "no
\* template" exactly when no template has these properties.
C9_MayorUmbral ==
  \A h \in DOMAIN envio :
    Consultado(h) =>
      LET ok(p) == /\ p.activa
                   /\ p.tipo = envio[h].tipo
                   /\ p.tono = envio[h].tono
                   /\ p.diasMora <= envio[h].diasMora
          k == envio[h].plantilla
      IN  IF k = 0
          THEN \A j \in DOMAIN plantillas : ~ok(plantillas[j])
          ELSE /\ ok(plantillas[k])
               /\ \A j \in DOMAIN plantillas :
                    ok(plantillas[j]) =>
                      plantillas[j].diasMora <= plantillas[k].diasMora

\* C9 witness: against matching templates at thresholds 0, 30 and 90 a
\* dispatch for a debt 45 days in arrears has selected the threshold-30 one
\* and a dispatch for a debt 0 days in arrears the threshold-0 one
C9_Testigo ==
  /\ \E h \in DOMAIN envio :
       /\ envio[h].plantilla # 0 /\ envio[h].diasMora = 45
       /\ plantillas[envio[h].plantilla].diasMora = 30
       /\ \A u \in {0, 30, 90} : \E j \in DOMAIN plantillas :
            /\ plantillas[j].diasMora = u /\ plantillas[j].activa
            /\ plantillas[j].tipo = envio[h].tipo
            /\ plantillas[j].tono = envio[h].tono
  /\ \E g \in DOMAIN envio :
       /\ envio[g].plantilla # 0 /\ envio[g].diasMora = 0
       /\ plantillas[envio[g].plantilla].diasMora = 0

\* C10: two selections on the same catalog with the same tipo, tono and
\* diasMora return the same template.
C10_Determinista ==
  \A h, g \in DOMAIN envio :
    /\ Consultado(h) /\ Consultado(g)
    /\ envio[h].tipo = envio[g].tipo /\ envio[h].tono = envio[g].tono
    /\ envio[h].diasMora = envio[g].diasMora
    => envio[h].plantilla = envio[g].plantilla

\* the numeric zero, as a rate
TasaCero == [clase |-> "numero", centesimas |-> 0]

\* C11: a comparison that answers for a campaign whose enviados is 0 gives
\* the numeric value 0 as that campaign's open rate, response rate and
\* conversion rate
C11_TasasCero ==
  comparacion.status = 200 =>
    \A i \in DOMAIN comparacion.lados :
      comparacion.lados[i].metricas.enviados = 0 =>
        /\ comparacion.lados[i].tasaApertura = TasaCero
        /\ comparacion.lados[i].tasaRespuesta = TasaCero
        /\ comparacion.lados[i].tasaConversion = TasaCero

\* C12: when one debt's update fails in a sweep, every other debt of that
\* run that is still open has been written with the days and the tier of
\* the run's date by the time the run ends
C12_FalloParcial ==
  sweep.pc = "catch" =>
    \A k \in 2..Len(sweep.cola) :
      LET i == sweep.cola[k]
      IN  deudas[i].estado \notin Terminales =>
            deudas[i] = ActualizarDeuda(deudas, i, sweep.hoy)[i]

\* C13 as stated: while the transport call of a dispatch is in flight, a
\* Communication of that dispatch is stored with estado 'enviado'
C13_EnviadoAntes ==
  \A h \in DOMAIN envio :
    envio[h].pc = "transporte" =>
      \E k \in RegistrosDe(h) : comunicaciones[k].estado = "enviado"

\* C13: the Communication of a dispatch is stored only after its transport
\* call has settled: while the call is in flight the store holds no record
\* of that dispatch, and no stored record is ever in estado 'enviado'
C13_RegistroDespues ==
  /\ \A h \in DOMAIN envio :
       envio[h].pc = "transporte" => RegistrosDe(h) = {}
  /\ \A k \in DOMAIN comunicaciones : comunicaciones[k].estado # "enviado"

\* C13 witness: one dispatch has its transport call in flight while another
\* has finished and left its record
C13_Testigo ==
  \E h, g \in DOMAIN envio :
    /\ envio[h].pc = "transporte"
    /\ Despachado(g) /\ RegistrosDe(g) # {}

\* C14: every dispatch whose transport call was issued goes on to store its
\* Communication with a terminal estado, 'entregado' or 'error', also when
\* the transport never answers
C14_DesenlaceRegistrado ==
  \A h \in 1..MaxEnvios :
    (envio[h].pc = "transporte") ~>
      (\E k \in RegistrosDe(h) :
         comunicaciones[k].estado \in {"entregado", "error"})

\* handler h holds a request and its customer or its debt is not in the store
SinClienteODeuda(h) ==
  /\ envio[h].pc # "idle"
  /\ \/ envio[h].clienteId \notin clientes
     \/ envio[h].deudaId \notin DOMAIN deudas

\* handler h holds a request whose customer and debt are in the store and
\* no template of the catalog matches it
SinPlantilla(h) ==
  /\ envio[h].pc # "idle"
  /\ envio[h].clienteId \in clientes
  /\ envio[h].deudaId \in DOMAIN deudas
  /\ FindOne(plantillas, envio[h].tipo, envio[h].tono,
             deudas[envio[h].deudaId].diasMora) = {0}

C16_Idempotente ==
  [][(traza.hecho = "si" /\ traza'.hecho = "si") => deudas' = deudas]_vars

\* C16 witness: the second sweep over two overdue debts, one of them more
\* than 30 days late, has made its first update
C16_Testigo ==
  /\ traza.hecho = "si"
  /\ sweep.pc = "loop"
  /\ Len(ColaDe(deudas, sweep.hoy, 1)) = 2
  /\ Len(sweep.cola) = 1
  /\ \E i \in DOMAIN deudas : deudas[i].diasMora > UmbralTemprana

\* C17 as stated: in every state every non-terminal debt's diasMora is
\* max(0, whole days between the due date and the clock's reading)
C17_DiasAlDia ==
  \A i \in DOMAIN deudas :
    deudas[i].estado \notin Terminales =>
      deudas[i].diasMora = DiasTabla(now, deudas[i].fechaVencimiento)

\* C17: diasMora is computed when a debt is written, not kept up with the
\* clock: a debt created overdue gets the whole days from its due date to
\* the clock's reading at creation, a debt a sweep iteration updates gets
\* the whole days from its due date to that run's date, and no other step
\* changes the diasMora of a debt
C17_DiasAlEscribir ==
  [][\A i \in DOMAIN deudas' :
       IF i \notin DOMAIN deudas
       THEN now > deudas'[i].fechaVencimiento =>
              deudas'[i].diasMora = DiasTabla(now, deudas'[i].fechaVencimiento)
       ELSE IF sweep.pc = "loop" /\ sweep' # sweep /\ i = Head(sweep.cola)
            THEN deudas'[i].diasMora =
                   DiasTabla(sweep.hoy, deudas'[i].fechaVencimiento)
            ELSE deudas'[i].diasMora = deudas[i].diasMora]_vars

\* C17 witness: an open debt whose stored diasMora was computed, and is no
\* longer the whole days between its due date and the clock's reading
C17_Testigo ==
  \E i \in DOMAIN deudas :
    /\ deudas[i].estado \notin Terminales
    /\ deudas[i].diasMora > 0
    /\ deudas[i].diasMora # DiasTabla(now, deudas[i].fechaVencimiento)

\* C18: in every state the estado of every non-terminal debt is the tier the
\* threshold table gives for the debt's stored diasMora, whatever payload
\* the debt was created with and whatever sweeps have run
C18_EstadoDeTabla ==
  \A i \in DOMAIN deudas :
    deudas[i].estado \notin Terminales =>
      deudas[i].estado = TablaEstado(deudas[i].diasMora)

\* the counters of campaniaSchema.metricas
Contadores == {"enviados", "entregados", "leidos", "respondidos", "pagos"}

\* C19: no step of a dispatch, a comparison, a sweep or a creation removes a
\* campaign or lowers one of the counters of a campaign that exists
C19_Monotono ==
  [][\A c \in DOMAIN campanias :
       /\ c \in DOMAIN campanias'
       /\ \A k \in Contadores : campanias'[c][k] >= campanias[c][k]]_vars

\* C19 witness: a campaign created with counters above 0 has been counted
\* up by a dispatch, a comparison has answered and a sweep has run
C19_Testigo ==
  /\ \E c \in DOMAIN campanias :
       campanias[c].enviados = 3 /\ campanias[c].pagos = 1
  /\ comparacion.status = 200
  /\ traza.hecho = "si"

\* the conversion rate of a metrics block, from its counters: pagos over
\* enviados as a percentage with two decimals, 0 when enviados is 0
TasaDerivada(m) ==
  IF m.enviados = 0 THEN TasaCero
  ELSE [clase |-> "numero",
        centesimas |-> (2 * m.pagos * 10000 + m.enviados) \div (2 * m.enviados)]

\* a stored tasaConversion, a percentage, as a rate
TasaGuardada(m) == [clase |-> "numero", centesimas |-> m.tasaConversion * 100]

\* C20: every conversion rate the store holds, and every conversion rate a
\* comparison returns, the one inside the returned metrics block included,
\* is the rate derived from the pagos and enviados next to it
C20_TasaSinDeriva ==
  /\ \A c \in DOMAIN campanias :
       TasaGuardada(campanias[c]) = TasaDerivada(campanias[c])
  /\ \A i \in DOMAIN comparacion.lados :
       /\ comparacion.lados[i].tasaConversion =
            TasaDerivada(comparacion.lados[i].metricas)
       /\ TasaGuardada(comparacion.lados[i].metricas) =
            TasaDerivada(comparacion.lados[i].metricas)

\* C21: a Communication whose transport call succeeded is never stored as
\* 'error', also when the save of the record or the update of the campaign
\* fails after the send; so a record stored as 'entregado' never becomes
\* 'error'
C21_EntregadoNoError ==
  \A h \in DOMAIN envio :
    envio[h].enviado =>
      \A k \in RegistrosDe(h) : comunicaciones[k].estado # "error"

\* C22: a sweep iteration issues its write only for a debt whose computed
\* diasMora and estado differ from the stored ones: every write of a sweep
\* changes the debt it is issued for
C22_EscribeSiDifiere ==
  [][(sweep.pc = "loop" /\ sweep' # sweep) =>
       deudas'[Head(sweep.cola)] # deudas[Head(sweep.cola)]]_vars

\* C23: a dispatch handler that has come to its end has answered once, with
\* 200, 404 or 500, on every path: missing customer or debt, no template,
\* a tipo of the switch or not, transport success or failure, store failure
\* after the send; and it has answered nothing before its end
C23_UnaRespuesta ==
  \A h \in DOMAIN envio :
    IF envio[h].pc = "done"
    THEN envio[h].resp \in {200, 404, 500}
    ELSE envio[h].resp = 0

\* C24: a step of a dispatch whose customer, debt or template is missing
\* stores no Communication, changes no campaign and does not issue the
\* transport call or go on to a save
C24_SinEfecto ==
  [][\A h \in DOMAIN envio :
       (envio'[h] # envio[h] /\ (SinClienteODeuda(h)' \/ SinPlantilla(h)')) =>
         /\ comunicaciones' = comunicaciones
         /\ campanias' = campanias
         /\ ~envio'[h].enviado
         /\ envio'[h].pc \in {"findDeuda", "findPlantilla", "done"}]_vars

\* C24 witness: a dispatch for a debt that is not in the store and a
\* dispatch that no template matches have ended with 404 next to a dispatch
\* that has stored its record and counted in its campaign
C24_Testigo ==
  /\ \E h \in DOMAIN envio :
       /\ envio[h].pc = "done" /\ envio[h].resp = 404
       /\ \/ envio[h].deudaId \notin DOMAIN deudas
          \/ SinPlantilla(h)
  /\ \E g \in DOMAIN envio : envio[g].resp = 200 /\ RegistrosDe(g) # {}
  /\ campanias[1].enviados = 1

\* the order of the tiers: current < early < mid < advanced
Rango(estado) ==
  CASE estado = "pendiente" -> 0
    [] estado = "mora_temprana" -> 1
    [] estado = "mora_media" -> 2
    [] estado = "mora_avanzada" -> 3

\* C25: the clock never going back, the write of a sweep iteration leaves
\* an open debt in its tier or moves it to a more severe one
C25_NuncaBaja ==
  [][(sweep.pc = "loop" /\ sweep' # sweep) =>
       LET i == Head(sweep.cola)
       IN  deudas[i].estado \notin Terminales =>
             Rango(deudas'[i].estado) >= Rango(deudas[i].estado)]_vars

\* C26: a campaign that starts with its counters at 0 and is written only by
\* dispatches has entregados <= enviados in every state, whatever the
\* interleaving of dispatches whose transport succeeds or fails
C26_EntregadosBajoEnviados ==
  \A c \in DOMAIN campanias :
    campanias[c].entregados <= campanias[c].enviados

\* C26 witness: of two dispatches to one campaign one was delivered and
\* counted and the other failed at the transport
C26_Testigo ==
  \E h, g \in DOMAIN envio :
    /\ envio[h].campaniaId = envio[g].campaniaId
    /\ envio[h].campaniaId \in DOMAIN campanias
    /\ envio[h].pc = "done" /\ envio[h].resp = 200
    /\ envio[g].pc = "done" /\ envio[g].resp = 500
    /\ campanias[envio[h].campaniaId].entregados = 1

\* the default payload for the due date of a stored debt
PorDefecto(d) ==
  [fechaVencimiento |-> d.fechaVencimiento, diasMora |-> 0,
   estado |-> "pendiente"]

\* C27: after a sweep with the clock's reading as its date, every debt that
\* was created before it with default diasMora and estado has the diasMora
\* and the estado that creating it at this reading gives, by the create-debt
\* handler of either server
C27_CrearIgualQueSweep ==
  traza.hecho = "si" =>
    \A i \in DOMAIN deudas :
      /\ deudas[i] = DeudaNueva(PorDefecto(deudas[i]), now)
      /\ deudas[i] = DeudaNuevaSimple(PorDefecto(deudas[i]), now)

\* C27 witness: a sweep has ended over a debt that is UmbralTemprana days
\* late and a debt that is not due yet
C27_Testigo ==
  /\ traza.hecho = "si"
  /\ \E i, j \in DOMAIN deudas :
       /\ deudas[i].diasMora = UmbralTemprana
       /\ deudas[j].fechaVencimiento > now

====
